---- MODULE Spec2Model ----
(***************************************************************************)
(* Model of gcp_nlp: the wrapper functions of gcp_nlp/functions.py around  *)
(* the AutoML client, and the data_prep.py script.                         *)
(*                                                                         *)
(* Strings whose characters matter (classification_type, path) are         *)
(* sequences of one-character strings; opaque pass-through arguments       *)
(* (project_id, region, display names, ids) are left out of the requests.  *)
(***************************************************************************)
EXTENDS Integers, Sequences, FiniteSets, TLC

VARIABLES
    client,          \* module global `client`: id of the handle it is bound to
    handles,         \* every service-client handle constructed in the process
    request,         \* remote call issued by the most recent wrapper call
    operations,      \* long-running operations of the remote service
    pc,              \* position of the single caller thread
    returned,        \* outcome of the most recent wrapper call
    original_data,   \* data_prep.py: the frame read from cleaned_hm.csv
    test_data_csv,   \* data_prep.py: records of happydb/test_data.csv
    text_only_csv,   \* data_prep.py: records of happydb/text_only.csv
    prep_pc          \* data_prep.py: position in the script

vars == <<client, handles, request, operations, pc, returned,
          original_data, test_data_csv, text_only_csv, prep_pc>>

wrapperVars == <<client, handles, request, operations, pc, returned>>

prepVars == <<original_data, test_data_csv, text_only_csv, prep_pc>>

----------------------------------------------------------------------------
(* Bounds *)

MaxOps == 2          \* long-running operations started in one run
MaxPredict == 2      \* predict calls in one run
MaxLowered == 3      \* letters lower-cased in a classification_type input
MaxPathLen == 2      \* characters of the path given to import_data
MaxEvals == 2        \* evaluations the service lists for a model
MaxState == 3        \* largest deployment_state value the service reports
MaxRows == 2         \* rows of the input CSV

----------------------------------------------------------------------------
(* Characters and str.upper() *)

UPPER == <<"A", "B", "C", "D", "E", "F", "G", "H", "I", "J", "K", "L", "M",
           "N", "O", "P", "Q", "R", "S", "T", "U", "V", "W", "X", "Y", "Z">>

LOWER == <<"a", "b", "c", "d", "e", "f", "g", "h", "i", "j", "k", "l", "m",
           "n", "o", "p", "q", "r", "s", "t", "u", "v", "w", "x", "y", "z">>

UpperOf == [c \in { LOWER[i] : i \in 1..Len(LOWER) } |->
              UPPER[CHOOSE i \in 1..Len(LOWER) : LOWER[i] = c]]

LowerOf == [c \in { UPPER[i] : i \in 1..Len(UPPER) } |->
              LOWER[CHOOSE i \in 1..Len(UPPER) : UPPER[i] = c]]

\* characters without a case (digits, "_", " ") map to themselves
UpperChar(c) == IF c \in DOMAIN UpperOf THEN UpperOf[c] ELSE c

LowerChar(c) == IF c \in DOMAIN LowerOf THEN LowerOf[c] ELSE c

\* classification_type.upper()
Upper(s) == [i \in 1..Len(s) |-> UpperChar(s[i])]

Lower(s) == [i \in 1..Len(s) |-> LowerChar(s[i])]

----------------------------------------------------------------------------
(* enums.ClassificationType of google.cloud.automl_v1beta1 *)

CLASSIFICATION_TYPE_UNSPECIFIED ==
    <<"C", "L", "A", "S", "S", "I", "F", "I", "C", "A", "T", "I", "O", "N",
      "_", "T", "Y", "P", "E", "_", "U", "N", "S", "P", "E", "C", "I", "F",
      "I", "E", "D">>

MULTICLASS == <<"M", "U", "L", "T", "I", "C", "L", "A", "S", "S">>

MULTILABEL == <<"M", "U", "L", "T", "I", "L", "A", "B", "E", "L">>

\* the members iterated by `for valid_type in enums.ClassificationType`
ClassificationType ==
    { [name |-> CLASSIFICATION_TYPE_UNSPECIFIED, value |-> 0],
      [name |-> MULTICLASS, value |-> 1],
      [name |-> MULTILABEL, value |-> 2] }

\* any(classification_type.upper() == valid_type.name for valid_type in ...)
IsValidType(classification_type) ==
    \E valid_type \in ClassificationType :
        Upper(classification_type) = valid_type.name

\* the value create_dataset puts in dataset_metadata
NormalizedTypeKeepCase(classification_type) == classification_type

NormalizedType(classification_type) == Upper(classification_type)

(* Inputs tried for classification_type: each word as written, all in      *)
(* lower case, with a prefix of up to MaxLowered letters lower-cased, and   *)
(* with one of the first MaxLowered letters lower-cased.                    *)
TypeWords ==
    { MULTICLASS, MULTILABEL, CLASSIFICATION_TYPE_UNSPECIFIED,
      <<"M", "U", "L", "T", "I">>,
      <<"B", "I", "N", "A", "R", "Y">>,
      <<"M", "U", "L", "T", "I", "C", "L", "A", "S", "S", " ">>,
      <<>> }

CaseVariants(w) ==
    { w, Lower(w) }
    \cup
    { [i \in 1..Len(w) |-> IF i <= k THEN LowerChar(w[i]) ELSE w[i]] :
        k \in 0..MaxLowered }
    \cup
    { [i \in 1..Len(w) |-> IF i = k THEN LowerChar(w[i]) ELSE w[i]] :
        k \in 1..MaxLowered }

TypeInputs == UNION { CaseVariants(w) : w \in TypeWords }

----------------------------------------------------------------------------
(* str.split(',') *)

PathChars == {"a", ",", " "}

RECURSIVE SeqsUpTo(_, _)
SeqsUpTo(S, n) ==
    IF n = 0 THEN { <<>> }
    ELSE LET shorter == SeqsUpTo(S, n - 1)
         IN  shorter \cup { Append(s, c) : s \in shorter, c \in S }

PathInputs == SeqsUpTo(PathChars, MaxPathLen)

\* Splits at every separator, keeping empty pieces: "" gives [""], and a
\* string with k separators gives k + 1 pieces.
RECURSIVE SplitFrom(_, _, _, _)
SplitFrom(s, sep, i, piece) ==
    IF i > Len(s) THEN << piece >>
    ELSE IF s[i] = sep
         THEN << piece >> \o SplitFrom(s, sep, i + 1, <<>>)
         ELSE SplitFrom(s, sep, i + 1, Append(piece, s[i]))

\* a split that trims blanks around each piece
SplitTrimmed(path) ==
    LET pieces == SplitFrom(path, ",", 1, <<>>)
    IN  [i \in 1..Len(pieces) |-> SelectSeq(pieces[i], LAMBDA c : c # " ")]

\* input_uris = path.split(',')
Split(path) == SplitFrom(path, ",", 1, <<>>)

----------------------------------------------------------------------------
(* enums.Model.DeploymentState and get_model's label *)

DEPLOYED == 1

DeploymentStates == 0..MaxState

DeploymentLabelUnspecified(deployment_state) ==
    IF deployment_state = 2 THEN "undeployed" ELSE "deployed"

DeploymentLabel(deployment_state) ==
    IF deployment_state = DEPLOYED THEN "deployed" ELSE "undeployed"

----------------------------------------------------------------------------
(* Long-running operations and the page iterator *)

\* google.api_core.operation.Operation.result() returns once the operation
\* is done
ResultReadyNoWait(op) == TRUE

ResultReady(op) == op.done

NoReturn == [fn |-> "none"]

NoRequest == [method |-> "none"]

EvalLists == { [i \in 1..n |-> i] : n \in 0..MaxEvals }

Idle == pc = "idle"

NewOperation(method) == [method |-> method, done |-> FALSE, result |-> "none"]

----------------------------------------------------------------------------
(* Module load and the wrapper functions of gcp_nlp/functions.py *)

\* client = automl.AutoMlClient()
InitWrappers ==
    /\ client = 1
    /\ handles = { [id |-> 1, kind |-> "AutoMlClient"] }
    /\ request = NoRequest
    /\ operations = <<>>
    /\ pc = "idle"
    /\ returned = NoReturn

create_dataset ==
    /\ Idle
    /\ \E classification_type \in TypeInputs :
          IF IsValidType(classification_type)
          THEN /\ request' = [method |-> "create_dataset", via |-> client,
                              classification_type |->
                                  NormalizedType(classification_type)]
               /\ returned' = [fn |-> "create_dataset", outcome |-> "return",
                               classification_type |-> classification_type]
          ELSE /\ request' = NoRequest
               /\ returned' = [fn |-> "create_dataset",
                               outcome |-> "ValueError",
                               classification_type |-> classification_type]
    /\ UNCHANGED <<client, handles, operations, pc>>
    /\ UNCHANGED prepVars

\* up to response = client.import_data(...); the caller then blocks in
\* response.result()
import_data_call ==
    /\ Idle
    /\ Len(operations) < MaxOps
    /\ \E path \in PathInputs :
          /\ request' = [method |-> "import_data", via |-> client,
                         input_uris |-> Split(path)]
          /\ returned' = [fn |-> "import_data", outcome |-> "blocked",
                          path |-> path, op |-> Len(operations) + 1]
    /\ operations' = Append(operations, NewOperation("import_data"))
    /\ pc' = "import_data"
    /\ UNCHANGED <<client, handles>>
    /\ UNCHANGED prepVars

\* response.result() comes back: the result is returned, or the
\* operation's error is raised
import_data_return ==
    /\ pc = "import_data"
    /\ ResultReady(operations[returned.op])
    /\ returned' = [fn |-> "import_data",
                    outcome |-> IF operations[returned.op].result = "error"
                                THEN "raise" ELSE "return",
                    path |-> returned.path,
                    op |-> returned.op,
                    value |-> operations[returned.op].result]
    /\ pc' = "idle"
    /\ UNCHANGED <<client, handles, request, operations>>
    /\ UNCHANGED prepVars

\* the remote service finishes an import or a training
OperationCompletes ==
    /\ \E i \in 1..Len(operations), result \in {"ok", "error"} :
          /\ ~operations[i].done
          /\ operations' = [operations EXCEPT
                              ![i] = [@ EXCEPT !.done = TRUE,
                                               !.result = result]]
    /\ UNCHANGED <<client, handles, request, pc, returned>>
    /\ UNCHANGED prepVars

create_model ==
    /\ Idle
    /\ Len(operations) < MaxOps
    /\ request' = [method |-> "create_model", via |-> client]
    /\ operations' = Append(operations, NewOperation("create_model"))
    /\ returned' = [fn |-> "create_model", outcome |-> "return",
                    value |-> Len(operations) + 1]
    /\ UNCHANGED <<client, handles, pc>>
    /\ UNCHANGED prepVars

\* client.transport._operations_client.get_operation(operation_id)
get_operation_status ==
    /\ Idle
    /\ \E operation_id \in 1..Len(operations) :
          /\ request' = [method |-> "get_operation", via |-> client,
                         operation_id |-> operation_id]
          /\ returned' = [fn |-> "get_operation_status",
                          outcome |-> "return",
                          value |-> operations[operation_id]]
    /\ UNCHANGED <<client, handles, operations, pc>>
    /\ UNCHANGED prepVars

get_model ==
    /\ Idle
    /\ \E deployment_state \in DeploymentStates :
          /\ request' = [method |-> "get_model", via |-> client]
          /\ returned' = [fn |-> "get_model", outcome |-> "return",
                          deployment_state |-> deployment_state,
                          printed |-> DeploymentLabel(deployment_state)]
    /\ UNCHANGED <<client, handles, operations, pc>>
    /\ UNCHANGED prepVars

(* google.api_core.page_iterator.Iterator: __iter__ raises ValueError when  *)
(* the iterator has already started, otherwise it yields the items left.    *)
IterateAll(it) ==
    IF it.started
    THEN [iterator |-> it, outcome |-> "ValueError", items |-> <<>>]
    ELSE [iterator |-> [it EXCEPT !.started = TRUE, !.pos = Len(it.items)],
          outcome |-> "items",
          items |-> SubSeq(it.items, it.pos + 1, Len(it.items))]

\* the `for evaluation in evaluations: print(evaluation)` loop runs before
\* the return
list_model_evaluations ==
    /\ Idle
    /\ \E items \in EvalLists :
          LET evaluations == [items |-> items, pos |-> 0, started |-> FALSE]
              loop == IterateAll(evaluations)
          IN  /\ request' = [method |-> "list_model_evaluations",
                             via |-> client]
              /\ returned' = [fn |-> "list_model_evaluations",
                              outcome |-> "return",
                              printed |-> loop.items,
                              value |-> loop.iterator,
                              received |-> [outcome |-> "none"]]
    /\ UNCHANGED <<client, handles, operations, pc>>
    /\ UNCHANGED prepVars

\* the caller iterates the object list_model_evaluations returned
caller_iterates ==
    /\ Idle
    /\ returned.fn = "list_model_evaluations"
    /\ returned.received.outcome = "none"
    /\ LET loop == IterateAll(returned.value)
       IN  returned' = [returned EXCEPT
                          !.value = loop.iterator,
                          !.received = [outcome |-> loop.outcome,
                                        items |-> loop.items]]
    /\ UNCHANGED <<client, handles, request, operations, pc>>
    /\ UNCHANGED prepVars

get_model_evaluation ==
    /\ Idle
    /\ request' = [method |-> "get_model_evaluation", via |-> client]
    /\ returned' = [fn |-> "get_model_evaluation", outcome |-> "return"]
    /\ UNCHANGED <<client, handles, operations, pc>>
    /\ UNCHANGED prepVars

NumPredictionClients ==
    Cardinality({ h \in handles : h.kind = "PredictionServiceClient" })

\* a predict that sends the request through the module's client
predict_shared ==
    /\ Idle
    /\ NumPredictionClients < MaxPredict
    /\ request' = [method |-> "predict", via |-> client]
    /\ returned' = [fn |-> "predict", outcome |-> "return"]
    /\ UNCHANGED <<client, handles, operations, pc>>
    /\ UNCHANGED prepVars

\* prediction_client = automl.PredictionServiceClient() on every call
predict ==
    /\ Idle
    /\ NumPredictionClients < MaxPredict
    /\ LET prediction_client == Cardinality(handles) + 1
       IN  /\ handles' = handles \cup
                  { [id |-> prediction_client,
                     kind |-> "PredictionServiceClient"] }
           /\ request' = [method |-> "predict", via |-> prediction_client]
           /\ returned' = [fn |-> "predict", outcome |-> "return"]
    /\ UNCHANGED <<client, operations, pc>>
    /\ UNCHANGED prepVars

----------------------------------------------------------------------------
(* data_prep.py *)

NaN == "<NaN>"

Texts == {"t1", "t2"}

Labels == {"l1"}

\* the columns of cleaned_hm.csv the model keeps
InputRows ==
    [cleaned_hm : Texts \cup {NaN},
     ground_truth_category : Labels \cup {NaN},
     predicted_category : {"p1", NaN}]

\* the frames pd.read_csv can give: empty fields are read as NaN
Frames == UNION { [1..n -> InputRows] : n \in 0..MaxRows }

\* data[[c1, c2, ...]]: the named columns, in the order named
Select(data, columns) ==
    [columns |-> columns,
     rows |-> [i \in 1..Len(data) |->
                 [j \in 1..Len(columns) |-> data[i][columns[j]]]]]

HasNaN(row) == \E j \in 1..Len(row) : row[j] = NaN

\* a dropna that drops a row only when all its values are missing
DropNaAll(frame) ==
    [frame EXCEPT !.rows =
        SelectSeq(@, LAMBDA row : \E j \in 1..Len(row) : row[j] # NaN)]

\* DataFrame.dropna(): drops every row holding a missing value
DropNa(frame) ==
    [frame EXCEPT !.rows = SelectSeq(@, LAMBDA row : ~HasNaN(row))]

\* to_csv(index=False, header=...): one record per row, a missing value
\* written as the empty field (na_rep = ''), after the header when asked for
ToCsv(frame, header) ==
    LET records == [i \in 1..Len(frame.rows) |->
                      [j \in 1..Len(frame.rows[i]) |->
                          IF frame.rows[i][j] = NaN THEN ""
                          ELSE frame.rows[i][j]]]
    IN  IF header THEN << frame.columns >> \o records ELSE records

TrainingColumnsLabelFirst == <<"ground_truth_category", "cleaned_hm">>

\* original_data[['cleaned_hm', 'ground_truth_category']]
TrainingColumns == <<"cleaned_hm", "ground_truth_category">>

\* test_data = original_data[[...]].dropna()
TestData(data) == DropNa(Select(data, TrainingColumns))

TextOnlyDropNa(data) == DropNa(Select(data, <<"cleaned_hm">>))

\* text_only = original_data.cleaned_hm
TextOnly(data) == Select(data, <<"cleaned_hm">>)

InitPrep ==
    /\ original_data = <<>>
    /\ test_data_csv = <<>>
    /\ text_only_csv = <<>>
    /\ prep_pc = "read_csv"

read_csv ==
    /\ prep_pc = "read_csv"
    /\ original_data' \in Frames
    /\ prep_pc' = "export_training"
    /\ UNCHANGED <<test_data_csv, text_only_csv>>
    /\ UNCHANGED wrapperVars

export_training ==
    /\ prep_pc = "export_training"
    /\ test_data_csv' = ToCsv(TestData(original_data), FALSE)
    /\ prep_pc' = "export_text"
    /\ UNCHANGED <<original_data, text_only_csv>>
    /\ UNCHANGED wrapperVars

export_text ==
    /\ prep_pc = "export_text"
    /\ text_only_csv' = ToCsv(TextOnly(original_data), FALSE)
    /\ prep_pc' = "done"
    /\ UNCHANGED <<original_data, test_data_csv>>
    /\ UNCHANGED wrapperVars

----------------------------------------------------------------------------
(* Specifications *)

Init == InitWrappers /\ InitPrep

Next ==
    \/ create_dataset
    \/ import_data_call
    \/ import_data_return
    \/ OperationCompletes
    \/ create_model
    \/ get_operation_status
    \/ get_model
    \/ list_model_evaluations
    \/ caller_iterates
    \/ get_model_evaluation
    \/ predict

Spec == Init /\ [][Next]_vars

NextPrep ==
    \/ read_csv
    \/ export_training
    \/ export_text

SpecPrep == Init /\ [][NextPrep]_vars

----------------------------------------------------------------------------
(* Properties of create_dataset *)

AllowedTypes == { MULTICLASS, MULTILABEL }

\* case-insensitively equal to MULTICLASS or MULTILABEL
IsAllowed(s) == \E a \in AllowedTypes : Lower(s) = Lower(a)

\* C1: a create_dataset whose classification_type is not case-insensitively
\* equal to MULTICLASS or MULTILABEL ends in ValueError, and has issued no
\* remote call.
C1_InvalidTypeRejected ==
    (returned.fn = "create_dataset"
        /\ ~IsAllowed(returned.classification_type))
    => (returned.outcome = "ValueError" /\ request = NoRequest)

\* C2: a create_dataset whose classification_type is case-insensitively
\* equal to MULTICLASS or MULTILABEL passes validation, and the request it
\* sends carries that value in upper case.
C2_ValidTypeUppercased ==
    (returned.fn = "create_dataset"
        /\ IsAllowed(returned.classification_type))
    => /\ returned.outcome = "return"
       /\ request.method = "create_dataset"
       /\ request.classification_type \in AllowedTypes
       /\ Lower(request.classification_type)
             = Lower(returned.classification_type)

C2_Witness ==
    /\ returned.fn = "create_dataset"
    /\ returned.outcome = "return"
    /\ returned.classification_type = Lower(MULTILABEL)
    /\ request.classification_type = MULTILABEL

----------------------------------------------------------------------------
(* Properties of import_data and create_model *)

NumCommas(s) == Cardinality({ i \in 1..Len(s) : s[i] = "," })

RECURSIVE JoinWithCommas(_)
JoinWithCommas(pieces) ==
    IF Len(pieces) = 0 THEN <<>>
    ELSE IF Len(pieces) = 1 THEN pieces[1]
    ELSE pieces[1] \o <<",">> \o JoinWithCommas(Tail(pieces))

\* C3: the input_uris of the import request are the substrings of path
\* between its commas, in order: one more entry than path has commas, no
\* entry holding a comma, nothing trimmed or split elsewhere.
C3_SplitOnlyOnCommas ==
    returned.fn = "import_data"
    => /\ request.method = "import_data"
       /\ Len(request.input_uris) = NumCommas(returned.path) + 1
       /\ \A i \in 1..Len(request.input_uris) :
             NumCommas(request.input_uris[i]) = 0
       /\ JoinWithCommas(request.input_uris) = returned.path

C3_Witness ==
    /\ returned.fn = "import_data"
    /\ returned.path = <<" ", ",">>
    /\ request.input_uris = << <<" ">>, <<>> >>

\* import_data has come back to its caller only with its operation done,
\* and what it returns is that operation's result
ImportReturnsTerminalResult ==
    (returned.fn = "import_data" /\ returned.outcome # "blocked")
    => /\ operations[returned.op].done
       /\ returned.value = operations[returned.op].result
       /\ (returned.outcome = "return") = (returned.value = "ok")

\* the step that starts an import leaves the caller blocked; the step that
\* starts a training has create_model returned with the operation's name
\* and the operation not done
StartedOperationStep ==
    Len(operations') > Len(operations)
    => LET op == Len(operations')
       IN  IF operations'[op].method = "import_data"
           THEN pc' = "import_data" /\ returned'.outcome = "blocked"
           ELSE /\ pc' = "idle"
                /\ returned'.fn = "create_model"
                /\ returned'.outcome = "return"
                /\ returned'.value = op
                /\ ~operations'[op].done

\* C4: import_data returns only after its import operation is terminal, with
\* that operation's result; create_model returns the training operation's
\* name in the step that issues the request, the operation still running.
C4_BlockingVsImmediate ==
    [] ImportReturnsTerminalResult /\ [][StartedOperationStep]_vars

C4_Witness ==
    /\ returned.fn = "import_data"
    /\ returned.outcome = "return"
    /\ \E i \in 1..Len(operations) :
          operations[i].method = "create_model" /\ ~operations[i].done

----------------------------------------------------------------------------
(* Properties of get_model and list_model_evaluations *)

\* C5: the label get_model derives is "deployed" when deployment_state is
\* DEPLOYED and "undeployed" for every other value.
C5_DeploymentLabel ==
    returned.fn = "get_model"
    => /\ (returned.deployment_state = DEPLOYED
             => returned.printed = "deployed")
       /\ (returned.deployment_state # DEPLOYED
             => returned.printed = "undeployed")

C5_Witness ==
    /\ returned.fn = "get_model"
    /\ returned.deployment_state > 2
    /\ returned.printed = "undeployed"

\* C9: the sequence list_model_evaluations returns has had no element
\* consumed, and a caller iterating it receives every evaluation listed.
C9_ReturnedUnconsumed ==
    returned.fn = "list_model_evaluations"
    => /\ returned.value.pos = 0
       /\ (returned.received.outcome # "none"
             => /\ returned.received.outcome = "items"
                /\ returned.received.items = returned.value.items)

----------------------------------------------------------------------------
(* Properties of the client handles *)

\* C10 as stated: one service-client handle exists, and every remote call
\* goes through the module's client.
C10_SingleHandle ==
    /\ Cardinality(handles) = 1
    /\ (request # NoRequest => request.via = client)

\* C10: one AutoMlClient exists, the one made at module load, and `client`
\* stays bound to it; every remote call but predict's goes through it;
\* predict's request goes through a PredictionServiceClient, a handle other
\* than the module's client, one per predict call made.
C10_OneAutoMlClient ==
    /\ client = 1
    /\ { h \in handles : h.kind = "AutoMlClient" }
          = { [id |-> 1, kind |-> "AutoMlClient"] }
    /\ (request.method \notin {"none", "predict"} => request.via = client)
    /\ (request.method = "predict"
          => /\ request.via # client
             /\ [id |-> request.via, kind |-> "PredictionServiceClient"]
                   \in handles
             /\ request.via = Cardinality(handles))

C10_Witness ==
    /\ request.method = "predict"
    /\ NumPredictionClients = 2
    /\ Cardinality(handles) = 3

----------------------------------------------------------------------------
(* Properties of data_prep.py *)

Exported == prep_pc \in {"export_text", "done"}

Complete(row) == row.cleaned_hm # NaN /\ row.ground_truth_category # NaN

\* C6: the first export holds exactly the input rows whose text and label
\* are both present, in input order.
C6_TrainingRowsComplete ==
    Exported
    => LET kept == SelectSeq(original_data, Complete)
       IN  /\ Len(test_data_csv) = Len(kept)
           /\ \A i \in 1..Len(kept) :
                 test_data_csv[i]
                    = <<kept[i].cleaned_hm, kept[i].ground_truth_category>>

C6_Witness ==
    /\ Exported
    /\ Len(original_data) = 2
    /\ original_data[1].cleaned_hm # NaN
    /\ original_data[1].ground_truth_category = NaN
    /\ Complete(original_data[2])
    /\ Len(test_data_csv) = 1

\* C7 as stated: the text-only export holds the text of the rows whose text
\* is present, and nothing for a row whose text is missing.
C7_TextOnlyDropsMissingText ==
    prep_pc = "done"
    => LET kept == SelectSeq(original_data,
                             LAMBDA row : row.cleaned_hm # NaN)
       IN  text_only_csv = [i \in 1..Len(kept) |-> <<kept[i].cleaned_hm>>]

\* C7: the text-only export holds one record per input row, in input order:
\* the row's text, or the empty field when the text is missing; no row is
\* dropped, whatever its label.
C7_TextOnlyKeepsEveryRow ==
    prep_pc = "done"
    => /\ Len(text_only_csv) = Len(original_data)
       /\ \A i \in 1..Len(original_data) :
             text_only_csv[i] =
                IF original_data[i].cleaned_hm = NaN
                THEN <<"">> ELSE <<original_data[i].cleaned_hm>>

C7_Witness ==
    /\ prep_pc = "done"
    /\ Len(original_data) = 2
    /\ original_data[1].cleaned_hm = NaN
    /\ original_data[2].cleaned_hm # NaN
    /\ original_data[2].ground_truth_category = NaN
    /\ text_only_csv = << <<"">>, <<original_data[2].cleaned_hm>> >>

NoHeader ==
    /\ (test_data_csv # <<>> => test_data_csv[1] # TrainingColumns)
    /\ (text_only_csv # <<>> => text_only_csv[1] # <<"cleaned_hm">>)

\* C8 as stated: every record of the first export is (label, text), and
\* neither file starts with a header.
C8_LabelThenText ==
    Exported
    => /\ \A i \in 1..Len(test_data_csv) :
             /\ Len(test_data_csv[i]) = 2
             /\ test_data_csv[i][1] \in Labels
             /\ test_data_csv[i][2] \in Texts
       /\ NoHeader

\* C8: every record of the first export is (text, label), the text value
\* first and the label value second, and neither file starts with a header.
C8_TextThenLabel ==
    Exported
    => /\ \A i \in 1..Len(test_data_csv) :
             /\ Len(test_data_csv[i]) = 2
             /\ test_data_csv[i][1] \in Texts
             /\ test_data_csv[i][2] \in Labels
       /\ NoHeader

C8_Witness ==
    /\ prep_pc = "done"
    /\ Len(test_data_csv) = 2
    /\ Len(text_only_csv) = 2
    /\ test_data_csv[1] = <<"t2", "l1">>

====
